---- MODULE Spec2Model ----
(***************************************************************************)
(* A model of the money library: Currency (src/src/currency.ts) and Money  *)
(* (src/unnamed/part_000).  Both are immutable value types; the state of   *)
(* the model is the values a client holds and the outcome of its last call.*)
(*                                                                         *)
(* Amounts are JavaScript numbers, i.e. IEEE-754 binary64 values.  Their   *)
(* 53-bit significands do not fit TLC's 32-bit integers, so the module     *)
(* first builds natural numbers of arbitrary size (B...), then binary64    *)
(* arithmetic with round-to-nearest-even on top of them (D...), then the   *)
(* host functions the library calls (toFixed, parseFloat, split), and only *)
(* then the library itself.  Texts are TLA+ strings.                       *)
(***************************************************************************)
EXTENDS Integers, Sequences, FiniteSets, TLC

VARIABLES this, other, res

vars == <<this, other, res>>

(***************************************************************************)
(* Natural numbers of arbitrary size: little-endian sequences of limbs in  *)
(* base LimbBase, without leading (most significant) zero limbs; zero is   *)
(* the empty sequence.                                                     *)
(***************************************************************************)
LimbBase == 10 ^ 4

\* 2^13, the largest power of two that is a legal small multiplier.
ShiftChunk == 2 ^ 13

RECURSIVE BNorm(_)
BNorm(x) ==
  IF x = <<>> THEN <<>>
  ELSE IF x[Len(x)] = 0 THEN BNorm(SubSeq(x, 1, Len(x) - 1))
  ELSE x

BFromInt(n) ==
  IF n = 0 THEN <<>>
  ELSE IF n < LimbBase THEN <<n>>
  ELSE BNorm(<<n % LimbBase, (n \div LimbBase) % LimbBase, n \div (LimbBase * LimbBase)>>)

BIsZero(x) == x = <<>>

BIsEven(x) == x = <<>> \/ x[1] % 2 = 0

RECURSIVE BCmpFrom(_, _, _)
\* Compares limbs i, i-1, ..., 1 of two numbers of the same length.
BCmpFrom(x, y, i) ==
  IF i = 0 THEN 0
  ELSE IF x[i] < y[i] THEN -1
  ELSE IF x[i] > y[i] THEN 1
  ELSE BCmpFrom(x, y, i - 1)

\* -1, 0 or 1 as x < y, x = y or x > y.
BCmp(x, y) ==
  IF Len(x) < Len(y) THEN -1
  ELSE IF Len(x) > Len(y) THEN 1
  ELSE BCmpFrom(x, y, Len(x))

RECURSIVE BAddC(_, _, _)
BAddC(x, y, c) ==
  IF x = <<>> /\ y = <<>> THEN (IF c = 0 THEN <<>> ELSE <<c>>)
  ELSE LET a == IF x = <<>> THEN 0 ELSE x[1]
           b == IF y = <<>> THEN 0 ELSE y[1]
           s == a + b + c
       IN <<s % LimbBase>> \o
          BAddC(IF x = <<>> THEN <<>> ELSE Tail(x),
                IF y = <<>> THEN <<>> ELSE Tail(y),
                s \div LimbBase)

BAdd(x, y) == BAddC(x, y, 0)

RECURSIVE BSubC(_, _, _)
BSubC(x, y, c) ==
  IF x = <<>> THEN <<>>
  ELSE LET b == IF y = <<>> THEN 0 ELSE y[1]
           d == x[1] - b - c
       IN <<IF d < 0 THEN d + LimbBase ELSE d>> \o
          BSubC(Tail(x), IF y = <<>> THEN <<>> ELSE Tail(y), IF d < 0 THEN 1 ELSE 0)

\* x - y for x >= y.
BSub(x, y) == BNorm(BSubC(x, y, 0))

RECURSIVE BMulC(_, _, _)
BMulC(x, k, c) ==
  IF x = <<>> THEN (IF c = 0 THEN <<>> ELSE <<c % LimbBase>> \o BMulC(<<>>, k, c \div LimbBase))
  ELSE LET p == x[1] * k + c
       IN <<p % LimbBase>> \o BMulC(Tail(x), k, p \div LimbBase)

\* x * k for 0 <= k <= LimbBase.
BMulSmall(x, k) == IF k = 0 THEN <<>> ELSE BMulC(x, k, 0)

RECURSIVE BDivFrom(_, _, _, _)
\* Long division of limbs i..1 by k with incoming remainder r: <<quotient limbs, remainder>>.
BDivFrom(x, k, i, r) ==
  IF i = 0 THEN [q |-> <<>>, r |-> r]
  ELSE LET cur  == r * LimbBase + x[i]
           rest == BDivFrom(x, k, i - 1, cur % k)
       IN [q |-> rest.q \o <<cur \div k>>, r |-> rest.r]

\* Quotient and remainder of x by k, 0 < k <= LimbBase.
BDivSmall(x, k) ==
  LET d == BDivFrom(x, k, Len(x), 0)
  IN [q |-> BNorm(d.q), r |-> d.r]

RECURSIVE BShl(_, _)
\* x * 2^n.
BShl(x, n) ==
  IF n = 0 THEN x
  ELSE IF n >= 13 THEN BShl(BMulSmall(x, ShiftChunk), n - 13)
  ELSE BMulSmall(x, 2 ^ n)

RECURSIVE BShr(_, _)
\* floor(x / 2^n), and whether any bit was shifted out.
BShr(x, n) ==
  IF n = 0 THEN [q |-> x, sticky |-> FALSE]
  ELSE LET k == IF n >= 13 THEN 13 ELSE n
           d == BDivSmall(x, 2 ^ k)
           rest == BShr(d.q, n - k)
       IN [q |-> rest.q, sticky |-> rest.sticky \/ d.r # 0]

Two52 == BShl(<<1>>, 52)
Two53 == BShl(<<1>>, 53)
Two54 == BShl(<<1>>, 54)
Two67 == BShl(<<1>>, 67)

(***************************************************************************)
(* IEEE-754 binary64 (the JavaScript Number type).  A value is NaN or the   *)
(* finite number (-1)^neg * m * 2^e with m < 2^53, kept in one canonical    *)
(* form: zero has e = 0; an integer below 2^53 has e = 0; any other value   *)
(* has m odd (e < 0) or 2^52 <= m (e > 0).  Every operation computes the    *)
(* exact result and rounds it once, to nearest, ties to even.  Infinities,  *)
(* subnormals and overflow are outside the magnitudes the inputs reach.     *)
(***************************************************************************)
NaN == [nan |-> TRUE, neg |-> FALSE, m |-> <<>>, e |-> 0]

RECURSIVE Canon(_, _, _)
Canon(neg, m, e) ==
  IF m = <<>> THEN [nan |-> FALSE, neg |-> neg, m |-> <<>>, e |-> 0]
  ELSE IF e > 0 /\ BCmp(BMulSmall(m, 2), Two53) < 0 THEN Canon(neg, BMulSmall(m, 2), e - 1)
  ELSE IF e < 0 /\ BIsEven(m) THEN Canon(neg, BDivSmall(m, 2).q, e + 1)
  ELSE [nan |-> FALSE, neg |-> neg, m |-> m, e |-> e]

RECURSIVE Round53(_, _, _, _)
\* The binary64 nearest to (-1)^neg * (n + t) * 2^e, where 0 < t < 1 if sticky and
\* t = 0 otherwise; ties go to the even significand.
Round53(neg, n, e, sticky) ==
  IF BCmp(n, Two67) >= 0
    THEN LET d == BDivSmall(n, ShiftChunk) IN Round53(neg, d.q, e + 13, sticky \/ d.r # 0)
  ELSE IF BCmp(n, Two54) >= 0
    THEN LET d == BDivSmall(n, 2) IN Round53(neg, d.q, e + 1, sticky \/ d.r # 0)
  ELSE IF BCmp(n, Two53) >= 0
    THEN LET d  == BDivSmall(n, 2)
             up == d.r = 1 /\ (sticky \/ ~BIsEven(d.q))
             m  == IF up THEN BAdd(d.q, <<1>>) ELSE d.q
         IN IF m = Two53 THEN Canon(neg, Two52, e + 2) ELSE Canon(neg, m, e + 1)
  ELSE Canon(neg, n, e)

\* The Number whose value is the integer (-1)^neg * n.
DFromNat(neg, n) == Round53(neg, n, 0, FALSE)

DZero == DFromNat(FALSE, <<>>)

DIsZero(x) == ~x.nan /\ x.m = <<>>

\* The significands of two finite values over their common (smaller) exponent.
DAlign(x, y) ==
  LET e0 == IF x.e < y.e THEN x.e ELSE y.e
  IN [x |-> BShl(x.m, x.e - e0), y |-> BShl(y.m, y.e - e0), e |-> e0]

\* -1, 0, 1 as x < y, x = y, x > y for finite x, y (-0 = +0).
DCmp(x, y) ==
  LET a == DAlign(x, y)
      c == BCmp(a.x, a.y)
  IN IF DIsZero(x) /\ DIsZero(y) THEN 0
     ELSE IF x.neg /\ ~y.neg THEN -1
     ELSE IF ~x.neg /\ y.neg THEN 1
     ELSE IF x.neg THEN -c ELSE c

\* x < y, x > y, x === y: false whenever an operand is NaN.
DLess(x, y) == ~x.nan /\ ~y.nan /\ DCmp(x, y) < 0

DGreater(x, y) == ~x.nan /\ ~y.nan /\ DCmp(x, y) > 0

DStrictEq(x, y) == ~x.nan /\ ~y.nan /\ DCmp(x, y) = 0

\* x - y.
DSub(x, y) ==
  IF x.nan \/ y.nan THEN NaN
  ELSE LET a  == DAlign(x, y)
           yn == ~y.neg
           c  == BCmp(a.x, a.y)
       IN IF x.neg = yn THEN Round53(x.neg, BAdd(a.x, a.y), a.e, FALSE)
          ELSE IF c = 0 THEN DZero
          ELSE IF c > 0 THEN Round53(x.neg, BSub(a.x, a.y), a.e, FALSE)
          ELSE Round53(yn, BSub(a.y, a.x), a.e, FALSE)

\* x * p for an integer 0 < p <= LimbBase (a power base ** exponent, itself exact).
DMulInt(x, p) ==
  IF x.nan THEN NaN ELSE Round53(x.neg, BMulSmall(x.m, p), x.e, FALSE)

\* x / p for an integer 0 < p <= LimbBase: the dividend is scaled by 2^70 so that
\* the integer quotient keeps more than 54 bits.
DDivInt(x, p) ==
  IF x.nan THEN NaN
  ELSE IF x.m = <<>> THEN x
  ELSE LET d == BDivSmall(BShl(x.m, 70), p)
       IN Round53(x.neg, d.q, x.e - 70, d.r # 0)

\* Math.trunc.
DTrunc(x) ==
  IF x.nan THEN NaN
  ELSE IF x.e >= 0 THEN x
  ELSE Canon(x.neg, BShr(x.m, -x.e).q, 0)

DIsNaN(x) == x.nan

(***************************************************************************)
(* Decimal text of natural numbers.                                        *)
(***************************************************************************)
Digits == {"0", "1", "2", "3", "4", "5", "6", "7", "8", "9"}

DigitChar(d) == SubSeq("0123456789", d + 1, d + 1)

DigitVal(c) ==
  CASE c = "0" -> 0 [] c = "1" -> 1 [] c = "2" -> 2 [] c = "3" -> 3 [] c = "4" -> 4
    [] c = "5" -> 5 [] c = "6" -> 6 [] c = "7" -> 7 [] c = "8" -> 8 [] c = "9" -> 9

\* The four decimal digits of one limb.
LimbDigits(l) ==
  DigitChar(l \div 1000) \o DigitChar((l \div 100) % 10) \o
  DigitChar((l \div 10) % 10) \o DigitChar(l % 10)

RECURSIVE BDigitsPadded(_)
BDigitsPadded(x) == IF x = <<>> THEN "" ELSE BDigitsPadded(Tail(x)) \o LimbDigits(x[1])

RECURSIVE StripZeros(_)
StripZeros(s) == IF Len(s) > 1 /\ Head(s) = "0" THEN StripZeros(Tail(s)) ELSE s

\* The decimal digits of x, "0" for zero.
BToDecimal(x) == IF x = <<>> THEN "0" ELSE StripZeros(BDigitsPadded(x))

RECURSIVE BFromDigitsAcc(_, _)
BFromDigitsAcc(s, acc) ==
  IF s = "" THEN acc
  ELSE BFromDigitsAcc(Tail(s), BAdd(BMulSmall(acc, 10), BFromInt(DigitVal(Head(s)))))

\* The number a string of decimal digits denotes.
BFromDigits(s) == BFromDigitsAcc(s, <<>>)

RECURSIVE Zeros(_)
Zeros(n) == IF n <= 0 THEN "" ELSE "0" \o Zeros(n - 1)

RECURSIVE BDivPow10(_, _)
\* floor(x / 10^f), and whether the division left a remainder.
BDivPow10(x, f) ==
  IF f = 0 THEN [q |-> x, sticky |-> FALSE]
  ELSE LET k == IF f >= 4 THEN 4 ELSE f
           d == BDivSmall(x, 10 ^ k)
           rest == BDivPow10(d.q, f - k)
       IN [q |-> rest.q, sticky |-> rest.sticky \/ d.r # 0]

(***************************************************************************)
(* Host functions of the JavaScript runtime that the library calls.        *)
(***************************************************************************)

\* Number.prototype.toFixed(f) for 0 <= f <= 4 and |x| < 10^21: the integer n nearest
\* to |x| * 10^f (the larger one on a tie), printed with f fractional digits.
ToFixed(x, f) ==
  IF x.nan THEN "NaN"
  ELSE LET scaled == BMulSmall(x.m, 10 ^ f)
           n      == IF x.e >= 0 THEN BShl(scaled, x.e)
                     ELSE BDivSmall(BAdd(BShr(scaled, -x.e - 1).q, <<1>>), 2).q
           digits == BToDecimal(n)
           padded == IF Len(digits) <= f THEN Zeros(f + 1 - Len(digits)) \o digits ELSE digits
           k      == Len(padded)
           m      == IF f = 0 THEN digits
                     ELSE SubSeq(padded, 1, k - f) \o "." \o SubSeq(padded, k - f + 1, k)
           s      == IF x.neg /\ x.m # <<>> THEN "-" ELSE ""
       IN s \o m

RECURSIVE DigitRun(_)
\* The longest prefix of s made of decimal digits.
DigitRun(s) == IF s # "" /\ Head(s) \in Digits THEN Head(s) \o DigitRun(Tail(s)) ELSE ""

\* The binary64 nearest to (-1)^neg * n / 10^f.
DecimalValue(neg, n, f) ==
  IF n = <<>> THEN Canon(neg, <<>>, 0)
  ELSE IF f = 0 THEN Round53(neg, n, 0, FALSE)
  ELSE LET shift == 60 + 4 * f
           d     == BDivPow10(BShl(n, shift), f)
       IN Round53(neg, d.q, -shift, d.sticky)

\* parseFloat(s) for texts without white space, exponent parts and "Infinity": the
\* longest prefix sign? digits (. digits?)? | sign? . digits is converted, whatever
\* follows it is ignored, and a text with no such prefix gives NaN.
ParseFloat(s) ==
  LET signed == s # "" /\ Head(s) \in {"+", "-"}
      neg    == s # "" /\ Head(s) = "-"
      body   == IF signed THEN Tail(s) ELSE s
      ip     == DigitRun(body)
      rest   == SubSeq(body, Len(ip) + 1, Len(body))
      fp     == IF rest # "" /\ Head(rest) = "." THEN DigitRun(Tail(rest)) ELSE ""
  IN IF ip = "" /\ fp = "" THEN NaN
     ELSE DecimalValue(neg, BFromDigits(ip \o fp), Len(fp))

RECURSIVE SplitAcc(_, _)
SplitAcc(rest, cur) ==
  IF rest = "" THEN <<cur>>
  ELSE IF Head(rest) = " " THEN <<cur>> \o SplitAcc(Tail(rest), "")
  ELSE SplitAcc(Tail(rest), cur \o Head(rest))

\* String.prototype.split(' '): the pieces between every two spaces, empty ones kept.
Split(text) == SplitAcc(text, "")

(***************************************************************************)
(* Outcomes of a call: a returned value or a thrown exception.             *)
(***************************************************************************)
Return(v) == [kind |-> "return", val |-> v]

Throw(exc, msg) == [kind |-> "throw", exc |-> exc, msg |-> msg]

(***************************************************************************)
(* Currency (src/src/currency.ts).                                         *)
(***************************************************************************)

\* The exports of @dinero.js/currencies the model keeps: ISO 4217 entries with
\* exponent 2, 0 and 3, all of base 10.
currencies ==
  [code \in {"EUR", "USD", "JPY", "BHD"} |->
     [code |-> code, base |-> 10,
      exponent |-> CASE code = "JPY" -> 0 [] code = "BHD" -> 3 [] OTHER -> 2]]

InvalidCurrencyException(code) ==
  Throw("InvalidCurrencyException", "Invalid currency: '" \o code \o "'")

\* A Currency wraps the table entry it was looked up from.
CurrencyNew(c) == [c |-> c]

CurrencyCode(cur) == cur.c.code

CurrencyExponent(cur) == cur.c.exponent

CurrencyBase(cur) == cur.c.base

CurrencyEquals(cur, o) == CurrencyCode(cur) = CurrencyCode(o)

CurrencyToString(cur) == CurrencyCode(cur)

\* Mutant: an unknown code is given the usual metadata instead of being refused.
CurrencyParse_defaulting(code) ==
  IF code \notin DOMAIN currencies
    THEN Return(CurrencyNew([code |-> code, base |-> 10, exponent |-> 2]))
  ELSE Return(CurrencyNew(currencies[code]))

\* Currency.parse misses the table exactly for the keys it does not hold.
CurrencyParse(code) ==
  IF code \notin DOMAIN currencies THEN InvalidCurrencyException(code)
  ELSE Return(CurrencyNew(currencies[code]))

(***************************************************************************)
(* Money (src/unnamed/part_000).                                           *)
(***************************************************************************)
MAX_SAFE_INTEGER == DFromNat(FALSE, BSub(Two53, <<1>>))

MIN_SAFE_INTEGER == DFromNat(TRUE, BSub(Two53, <<1>>))

MoneyException(msg) == Throw("MoneyException", msg)

MoneyParseException(text) ==
  Throw("MoneyParseException", "Impossible to parse money: " \o text)

MoneyNew(amount, currency) ==
  IF DGreater(amount, MAX_SAFE_INTEGER) \/ DLess(amount, MIN_SAFE_INTEGER)
    THEN MoneyException("Unsafe integer amount!")
  ELSE Return([amount |-> amount, currency |-> currency])

hasSameCurrency(m, o) == CurrencyEquals(m.currency, o.currency)

\* Mutant: the currencies are not compared before the amounts are subtracted.
compareTo_unchecked(m, o) == Return(DSub(m.amount, o.amount))

compareTo(m, o) ==
  IF ~hasSameCurrency(m, o)
    THEN MoneyException("Impossible to compare monetary values with different currencies.")
  ELSE Return(DSub(m.amount, o.amount))

isGreaterThan(m, o) ==
  LET c == compareTo(m, o)
  IN IF c.kind = "throw" THEN c ELSE Return(DGreater(c.val, DZero))

\* Mutant: <= in place of <.
isLessThan_orEqual(m, o) ==
  LET c == compareTo(m, o)
  IN IF c.kind = "throw" THEN c
     ELSE Return(DLess(c.val, DZero) \/ DStrictEq(c.val, DZero))

isLessThan(m, o) ==
  LET c == compareTo(m, o)
  IN IF c.kind = "throw" THEN c ELSE Return(DLess(c.val, DZero))

equals(m, o) ==
  LET c == compareTo(m, o)
  IN IF c.kind = "throw" THEN c ELSE Return(DStrictEq(c.val, DZero))

convertAmountToDecimal(m) ==
  DDivInt(m.amount, CurrencyBase(m.currency) ^ CurrencyExponent(m.currency))

toString(m) ==
  LET amountInDecimal         == convertAmountToDecimal(m)
      amountWithDecimalPlaces == ToFixed(amountInDecimal, CurrencyExponent(m.currency))
  IN amountWithDecimalPlaces \o " " \o CurrencyCode(m.currency)

toJSON(m) ==
  [amount    |-> m.amount,
   currency  |-> CurrencyCode(m.currency),
   precision |-> CurrencyExponent(m.currency),
   raw       |-> toString(m)]

\* Mutant: the text is cut at its first space only.
ParseTokens_firstSpace(text) ==
  LET amountStr == Split(text)[1]
  IN [amountStr   |-> amountStr,
      currencyStr |-> IF Len(amountStr) < Len(text)
                        THEN SubSeq(text, Len(amountStr) + 2, Len(text))
                        ELSE "undefined"]

\* The two names the destructuring binds: a missing second piece is undefined, which
\* the table lookup and the exception message both read as the text "undefined".
ParseTokens(text) ==
  LET parts == Split(text)
  IN [amountStr   |-> parts[1],
      currencyStr |-> IF Len(parts) >= 2 THEN parts[2] ELSE "undefined"]

\* Mutant: the amount is validated before the currency is looked up.
MoneyParse_amountFirst(text) ==
  LET t == ParseTokens(text)
  IN IF DIsNaN(ParseFloat(t.amountStr)) THEN MoneyParseException(text)
     ELSE LET currency == CurrencyParse(t.currencyStr)
          IN IF currency.kind = "throw" THEN currency
             ELSE MoneyNew(DTrunc(DMulInt(ParseFloat(t.amountStr),
                                          CurrencyBase(currency.val) ^ CurrencyExponent(currency.val))),
                           currency.val)

MoneyParse(text) ==
  LET t        == ParseTokens(text)
      currency == CurrencyParse(t.currencyStr)
  IN IF currency.kind = "throw" THEN currency
     ELSE LET amount == DMulInt(ParseFloat(t.amountStr),
                                CurrencyBase(currency.val) ^ CurrencyExponent(currency.val))
          IN IF DIsNaN(amount) THEN MoneyParseException(text)
             ELSE MoneyNew(DTrunc(amount), currency.val)

(***************************************************************************)
(* The client: it holds up to two Money values (this, other) and the       *)
(* outcome of its last call (res).  A call that throws leaves the values   *)
(* held as they were.                                                      *)
(***************************************************************************)
None == [none |-> TRUE]

Init == this = None /\ other = None /\ res = [op |-> "none"]

\* The Number an integer literal i denotes.
IntNumber(i) == DFromNat(i < 0, BFromInt(IF i < 0 THEN -i ELSE i))

\* The Number a decimal literal denotes.
Num(literal) == ParseFloat(literal)

\* new Money(amount, Currency.parse(code))
Construct(amount, code) ==
  LET currency == CurrencyParse(code)
  IN IF currency.kind = "throw" THEN currency ELSE MoneyNew(amount, currency.val)

NewThis(amounts, codes) ==
  \E amount \in amounts, code \in codes :
    LET out == Construct(amount, code)
    IN /\ this' = IF out.kind = "return" THEN out.val ELSE this
       /\ res' = [op |-> "new", amount |-> amount, code |-> code, out |-> out]
       /\ UNCHANGED other

NewOther(amounts, codes) ==
  \E amount \in amounts, code \in codes :
    LET out == Construct(amount, code)
    IN /\ other' = IF out.kind = "return" THEN out.val ELSE other
       /\ res' = [op |-> "new", amount |-> amount, code |-> code, out |-> out]
       /\ UNCHANGED this

CallToString ==
  /\ this # None
  /\ res' = [op |-> "toString", out |-> Return(toString(this))]
  /\ UNCHANGED <<this, other>>

CallToJSON ==
  /\ this # None
  /\ res' = [op |-> "toJSON", out |-> Return(toJSON(this))]
  /\ UNCHANGED <<this, other>>

\* Money.parse(this.toString()), and the text of what it returned.
RoundTrip ==
  /\ this # None
  /\ LET text == toString(this)
         out  == MoneyParse(text)
     IN res' = [op |-> "roundTrip", text |-> text, out |-> out,
                again |-> IF out.kind = "return" THEN toString(out.val) ELSE ""]
  /\ UNCHANGED <<this, other>>

CallHasSameCurrency ==
  /\ this # None /\ other # None
  /\ res' = [op |-> "hasSameCurrency", out |-> Return(hasSameCurrency(this, other))]
  /\ UNCHANGED <<this, other>>

CallCompareTo ==
  /\ this # None /\ other # None
  /\ res' = [op |-> "compareTo", out |-> compareTo(this, other)]
  /\ UNCHANGED <<this, other>>

CallIsGreaterThan ==
  /\ this # None /\ other # None
  /\ res' = [op |-> "isGreaterThan", out |-> isGreaterThan(this, other)]
  /\ UNCHANGED <<this, other>>

CallIsLessThan ==
  /\ this # None /\ other # None
  /\ res' = [op |-> "isLessThan", out |-> isLessThan(this, other)]
  /\ UNCHANGED <<this, other>>

CallEquals ==
  /\ this # None /\ other # None
  /\ res' = [op |-> "equals", out |-> equals(this, other)]
  /\ UNCHANGED <<this, other>>

CallCurrencyParse(codes) ==
  \E code \in codes :
    /\ res' = [op |-> "Currency.parse", code |-> code, out |-> CurrencyParse(code)]
    /\ UNCHANGED <<this, other>>

CallMoneyParse(texts) ==
  \E text \in texts :
    /\ res' = [op |-> "Money.parse", text |-> text, out |-> MoneyParse(text)]
    /\ UNCHANGED <<this, other>>

(***************************************************************************)
(* Inputs.                                                                 *)
(***************************************************************************)
MaxCents == 30

MaxUnits == 2

MaxExtraTokens == 1

\* Construction and formatting: the amounts up to MaxCents, the amounts of the tests and
\* the README, the ends of the safe range and their neighbours, an amount whose
\* hundredth falls between 2^46 and 2^47, a fraction, and NaN.
FormatAmounts ==
  {IntNumber(i) : i \in 0..MaxCents}
    \cup {Num(l) : l \in {"1025", "1034", "12345", "123456", "-500", "-29", "-1",
                          "9007199254740991", "-9007199254740991",
                          "9007199254740992", "-9007199254740992",
                          "7036874417766401", "10.5"}}
    \cup {NaN}

FormatCodes == DOMAIN currencies

\* Comparison: small amounts and the ends of the safe range, in two currencies.
CompareAmounts ==
  {IntNumber(i) : i \in -MaxUnits..MaxUnits}
    \cup {Num(l) : l \in {"100", "9007199254740991", "-9007199254740991",
                          "9007199254740992", "10.5"}}
    \cup {NaN}

CompareCodes == {"EUR", "USD"}

\* Parsing: texts of one token, of two, and of two followed by extra tokens.
AmountTokens ==
  {"10.34", "45.98", "0.29", "10", "-5.00", "Aas", "12abc", "", "-", "90071992547409.93"}

CodeTokens == {"EUR", "JPY", "ABC", "eur", ""}

ExtraTokens == {"extra", "EUR"}

RECURSIVE WithExtras(_, _)
WithExtras(texts, n) ==
  IF n = 0 THEN texts
  ELSE texts \cup WithExtras({t \o " " \o x : t \in texts, x \in ExtraTokens}, n - 1)

ParseTexts ==
  AmountTokens \cup
  WithExtras({a \o " " \o c : a \in AmountTokens, c \in CodeTokens}, MaxExtraTokens)

CodeInputs == DOMAIN currencies \cup CodeTokens \cup {"123qwerty", "EU", "EURO", "undefined"}

(***************************************************************************)
(* Specifications: one per group of operations.                            *)
(***************************************************************************)
NextFormat ==
  \/ NewThis(FormatAmounts, FormatCodes)
  \/ CallToString
  \/ CallToJSON
  \/ RoundTrip

SpecFormat == Init /\ [][NextFormat]_vars

NextCompare ==
  \/ NewThis(CompareAmounts, CompareCodes)
  \/ NewOther(CompareAmounts, CompareCodes)
  \/ CallHasSameCurrency
  \/ CallCompareTo
  \/ CallIsGreaterThan
  \/ CallIsLessThan
  \/ CallEquals

SpecCompare == Init /\ [][NextCompare]_vars

NextParse ==
  \/ CallCurrencyParse(CodeInputs)
  \/ CallMoneyParse(ParseTexts)

SpecParse == Init /\ [][NextParse]_vars

(***************************************************************************)
(* Vocabulary of the claims.                                               *)
(***************************************************************************)

\* Number.isSafeInteger: in canonical form exactly the values with e = 0.
IsSafeInteger(x) == ~x.nan /\ x.e = 0

\* The inclusive range MIN_SAFE_INTEGER..MAX_SAFE_INTEGER, fractions included.
InEnvelope(x) == ~x.nan /\ DCmp(x, MAX_SAFE_INTEGER) <= 0 /\ DCmp(x, MIN_SAFE_INTEGER) >= 0

Codes == {"EUR", "USD", "JPY", "BHD"}

CompareOps == {"compareTo", "isGreaterThan", "isLessThan", "equals"}

CrossCurrencyError ==
  [kind |-> "throw", exc |-> "MoneyException",
   msg  |-> "Impossible to compare monetary values with different currencies."]

ExactlyOne(a, b, c) == (a /\ ~b /\ ~c) \/ (~a /\ b /\ ~c) \/ (~a /\ ~b /\ c)

\* The exact difference of two safe integers, as a sign and a magnitude.
ExactDifference(x, y) ==
  IF x.neg # y.neg THEN [neg |-> x.neg, mag |-> BAdd(x.m, y.m)]
  ELSE IF BCmp(x.m, y.m) >= 0 THEN [neg |-> x.neg, mag |-> BSub(x.m, y.m)]
  ELSE [neg |-> ~x.neg, mag |-> BSub(y.m, x.m)]

\* The decimal text of the integer (-1)^neg * n divided by 10^f, digit for digit.
ExactDecimal(neg, n, f) ==
  LET digits == BToDecimal(n)
      padded == IF Len(digits) <= f THEN Zeros(f + 1 - Len(digits)) \o digits ELSE digits
      k      == Len(padded)
  IN (IF neg /\ n # <<>> THEN "-" ELSE "") \o
     (IF f = 0 THEN digits ELSE SubSeq(padded, 1, k - f) \o "." \o SubSeq(padded, k - f + 1, k))

\* A text that is, as a whole, a decimal number: sign? digits (. digits?)? or sign? . digits.
IsDecimalText(s) ==
  LET body == IF s # "" /\ Head(s) \in {"+", "-"} THEN Tail(s) ELSE s
      ip   == DigitRun(body)
      rest == SubSeq(body, Len(ip) + 1, Len(body))
      fp   == IF rest # "" /\ Head(rest) = "." THEN DigitRun(Tail(rest)) ELSE ""
  IN /\ ip # "" \/ fp # ""
     /\ rest = "" \/ (Head(rest) = "." /\ Len(fp) = Len(rest) - 1)

\* The pieces of a text between its spaces, and the currency token among them.
Pieces(text) == Split(text)

CurrencyToken(text) == IF Len(Pieces(text)) >= 2 THEN Pieces(text)[2] ELSE "undefined"

(***************************************************************************)
(* Claims.                                                                 *)
(***************************************************************************)

\* C1: new Money(amount, currency) succeeds exactly when amount is a safe integer and
\* fails with MoneyException('Unsafe integer amount!') otherwise, so every Money
\* value that exists holds a safe integer.
C1_ConstructsIffSafeInteger ==
  /\ res.op = "new" /\ res.code \in Codes =>
       IF IsSafeInteger(res.amount) THEN res.out.kind = "return"
       ELSE res.out = [kind |-> "throw", exc |-> "MoneyException", msg |-> "Unsafe integer amount!"]
  /\ this # None => IsSafeInteger(this.amount)

\* C2: compareTo, isGreaterThan, isLessThan and equals fail with the cross-currency
\* MoneyException exactly when the two currency codes differ, whatever the amounts,
\* and return when the codes are equal; hasSameCurrency always returns, and returns
\* whether the codes are equal.
C2_ComparisonFailsIffCurrenciesDiffer ==
  /\ res.op \in CompareOps =>
       IF this.currency.c.code # other.currency.c.code
         THEN res.out = CrossCurrencyError
         ELSE res.out.kind = "return"
  /\ res.op = "hasSameCurrency" =>
       /\ res.out.kind = "return"
       /\ res.out.val = (this.currency.c.code = other.currency.c.code)

C2_Witness ==
  /\ res.op = "compareTo"
  /\ this.amount = Num("100") /\ this.currency.c.code = "EUR"
  /\ other.amount = Num("100") /\ other.currency.c.code = "USD"
  /\ res.out = CrossCurrencyError

\* C3: for a Money value m of an exponent-2, base-10 currency holding a safe integer,
\* Money.parse(m.toString()) returns a Money value with m's currency and amount, and
\* printing that value gives the text back.
C3_RoundTrip ==
  res.op = "roundTrip" /\ IsSafeInteger(this.amount)
    /\ this.currency.c.exponent = 2 /\ this.currency.c.base = 10 =>
      /\ res.out.kind = "return"
      /\ res.out.val.currency.c.code = this.currency.c.code
      /\ DStrictEq(res.out.val.amount, this.amount)
      /\ res.again = res.text

C5_MalformedAmountRejected ==
  res.op = "Money.parse" /\ CurrencyToken(res.text) \in Codes
    /\ ~IsDecimalText(Pieces(res.text)[1]) =>
      res.out = [kind |-> "throw", exc |-> "MoneyParseException",
                 msg  |-> "Impossible to parse money: " \o res.text]

C7_ExactDecimalText ==
  res.op = "toString" /\ IsSafeInteger(this.amount) /\ this.currency.c.base = 10 =>
    res.out.val = ExactDecimal(this.amount.neg, this.amount.m, this.currency.c.exponent)
                    \o " " \o this.currency.c.code

\* C8: for two Money values of the same currency with amounts in the safe range,
\* exactly one of isGreaterThan, isLessThan and equals is true.
C8_ExactlyOneOrdering ==
  this # None /\ other # None /\ this.currency.c.code = other.currency.c.code
    /\ InEnvelope(this.amount) /\ InEnvelope(other.amount) =>
      /\ ExactlyOne(isGreaterThan(this, other).val, isLessThan(this, other).val,
                    equals(this, other).val)
      /\ res.op = "isGreaterThan" => res.out = isGreaterThan(this, other)
      /\ res.op = "isLessThan" => res.out = isLessThan(this, other)
      /\ res.op = "equals" => res.out = equals(this, other)

C8_Witness ==
  /\ res.op = "isGreaterThan"
  /\ this.amount = MAX_SAFE_INTEGER /\ other.amount = MIN_SAFE_INTEGER
  /\ this.currency.c.code = other.currency.c.code
  /\ res.out = Return(TRUE)

\* C9: for two same-currency Money values holding safe integers, compareTo returns
\* exactly their integer difference: no precision is lost in the subtraction.
C9_ExactDifference ==
  res.op = "compareTo" /\ res.out.kind = "return"
    /\ IsSafeInteger(this.amount) /\ IsSafeInteger(other.amount) =>
      LET d == ExactDifference(this.amount, other.amount)
      IN /\ ~res.out.val.nan
         /\ res.out.val.e >= 0
         /\ BShl(res.out.val.m, res.out.val.e) = d.mag
         /\ d.mag # <<>> => res.out.val.neg = d.neg

\* C10 as claimed: an input with more than two space-separated tokens fails with
\* InvalidCurrencyException and never yields a Money value.
C10_ExtraTokensRejected ==
  res.op = "Money.parse" /\ Len(Pieces(res.text)) > 2 =>
    res.out.kind = "throw" /\ res.out.exc = "InvalidCurrencyException"

\* C10 as amended: the pieces after the second are ignored; an input with more than
\* two pieces has the outcome of parsing its first two pieces alone, except that a
\* MoneyParseException carries the whole input.
C10_ExtraTokensIgnored ==
  res.op = "Money.parse" /\ Len(Pieces(res.text)) > 2 =>
    LET two == Pieces(res.text)[1] \o " " \o Pieces(res.text)[2]
        out == MoneyParse(two)
    IN IF out.kind = "throw" /\ out.exc = "MoneyParseException"
         THEN res.out = [kind |-> "throw", exc |-> "MoneyParseException",
                         msg  |-> "Impossible to parse money: " \o res.text]
         ELSE res.out = out

C10_Witness ==
  /\ res.op = "Money.parse" /\ res.text = "10 EUR extra"
  /\ res.out.kind = "return"
  /\ res.out.val.amount = Num("1000") /\ res.out.val.currency.c.code = "EUR"

====
